---- MODULE Spec2Model ----
(***************************************************************************)
(* HR attrition dashboard (src/app.py): a Streamlit script that is re-run  *)
(* from top to bottom on every interaction.  One run = load_data (behind   *)
(* st.cache_data) -> empty-dataset guard -> derived columns -> KPIs ->     *)
(* risk groups -> the selected page.                                       *)
(*                                                                         *)
(* Text is modelled as a sequence of one-character strings, so that        *)
(* strip(), lower(), str() and the CSV type inference are computed.        *)
(***************************************************************************)
EXTENDS Integers, Sequences, FiniteSets, TLC

(* ------------------------------------------------------------------ *)
(* Text                                                                *)
(* ------------------------------------------------------------------ *)

IsSpace(c) == c = " "

RECURSIVE LStrip(_)
LStrip(s) == IF s # <<>> /\ IsSpace(Head(s)) THEN LStrip(Tail(s)) ELSE s

RECURSIVE RStrip(_)
RStrip(s) ==
    IF s # <<>> /\ IsSpace(s[Len(s)]) THEN RStrip(SubSeq(s, 1, Len(s) - 1)) ELSE s

\* str.strip()
Strip(s) == RStrip(LStrip(s))

LowerMap ==
    ("A" :> "a") @@ ("B" :> "b") @@ ("C" :> "c") @@ ("D" :> "d") @@ ("E" :> "e") @@ ("F" :> "f")
    @@ ("G" :> "g") @@ ("H" :> "h") @@ ("I" :> "i") @@ ("J" :> "j") @@ ("K" :> "k") @@ ("L" :> "l")
    @@ ("M" :> "m") @@ ("N" :> "n") @@ ("O" :> "o") @@ ("P" :> "p") @@ ("Q" :> "q") @@ ("R" :> "r")
    @@ ("S" :> "s") @@ ("T" :> "t") @@ ("U" :> "u") @@ ("V" :> "v") @@ ("W" :> "w") @@ ("X" :> "x")
    @@ ("Y" :> "y") @@ ("Z" :> "z")

LowerChar(c) == IF c \in DOMAIN LowerMap THEN LowerMap[c] ELSE c

\* str.lower()
Lower(s) == [i \in 1..Len(s) |-> LowerChar(s[i])]

DigitVal ==
    ("0" :> 0) @@ ("1" :> 1) @@ ("2" :> 2) @@ ("3" :> 3) @@ ("4" :> 4)
    @@ ("5" :> 5) @@ ("6" :> 6) @@ ("7" :> 7) @@ ("8" :> 8) @@ ("9" :> 9)

DigitChar == <<"0", "1", "2", "3", "4", "5", "6", "7", "8", "9">>

IsDigits(s) == s # <<>> /\ \A i \in 1..Len(s) : s[i] \in DOMAIN DigitVal

RECURSIVE DigitsVal(_)
DigitsVal(s) ==
    IF s = <<>> THEN 0
    ELSE 10 * DigitsVal(SubSeq(s, 1, Len(s) - 1)) + DigitVal[s[Len(s)]]

RECURSIVE NatText(_)
NatText(n) ==
    IF n < 10 THEN <<DigitChar[n + 1]>>
    ELSE NatText(n \div 10) \o <<DigitChar[(n % 10) + 1]>>

\* str(int)
IntText(n) == IF n < 0 THEN <<"-">> \o NatText(0 - n) ELSE NatText(n)

(* ------------------------------------------------------------------ *)
(* Values of a DataFrame cell                                          *)
(* ------------------------------------------------------------------ *)

\* int64, float64 (whole-valued), object string, missing (NaN / None).
IntV(n)   == [k |-> "int",   n |-> n, s |-> <<>>]
FloatV(n) == [k |-> "float", n |-> n, s |-> <<>>]
StrV(s)   == [k |-> "str",   n |-> 0, s |-> s]
NaN       == [k |-> "nan",   n |-> 0, s |-> <<>>]

IsNum(v) == v.k \in {"int", "float"}
IsNull(v) == v.k = "nan"

\* Python's str(x) of a cell value.
PyStr(v) ==
    CASE v.k = "int"   -> IntText(v.n)
      [] v.k = "float" -> IntText(v.n) \o <<".", "0">>
      [] v.k = "str"   -> v.s
      [] OTHER         -> <<"n", "a", "n">>

(* ------------------------------------------------------------------ *)
(* Column names                                                        *)
(* ------------------------------------------------------------------ *)

ATTRITION      == <<"A", "t", "t", "r", "i", "t", "i", "o", "n">>
ATTRITION_BOOL == <<"A", "t", "t", "r", "i", "t", "i", "o", "n", "_", "b", "o", "o", "l">>
AGE            == <<"A", "g", "e">>
AGEBUCKET      == <<"A", "g", "e", "B", "u", "c", "k", "e", "t">>
DEPARTMENT     == <<"D", "e", "p", "a", "r", "t", "m", "e", "n", "t">>
JOBROLE        == <<"J", "o", "b", "R", "o", "l", "e">>
MONTHLYINCOME  == <<"M", "o", "n", "t", "h", "l", "y", "I", "n", "c", "o", "m", "e">>
YEARSATCOMPANY == <<"Y", "e", "a", "r", "s", "A", "t", "C", "o", "m", "p", "a", "n", "y">>
DISTANCE       == <<"D", "i", "s", "t", "a", "n", "c", "e", "F", "r", "o", "m", "H", "o", "m", "e">>
JOBSAT         == <<"J", "o", "b", "S", "a", "t", "i", "s", "f", "a", "c", "t", "i", "o", "n">>
OVERTIME       == <<"O", "v", "e", "r", "T", "i", "m", "e">>

(* ------------------------------------------------------------------ *)
(* CSV text and pd.read_csv                                            *)
(* ------------------------------------------------------------------ *)

\* A CSV text: a header line (raw column names) and rows of raw cells.
Csv(header, rows) == [kind |-> "csv", header |-> header, rows |-> rows]

\* No file at the path / no upload in the widget (None).
Nothing == [kind |-> "none", header |-> <<>>, rows |-> <<>>]

\* pandas' default na_values that the inputs use.
NAStrings ==
    { <<>>, <<"N", "A">>, <<"N", "/", "A">>, <<"n", "a", "n">>, <<"N", "a", "N">> }

IsNA(t) == t \in NAStrings

IsIntLit(t) ==
    LET u == Strip(t)
    IN  \/ IsDigits(u)
        \/ (u # <<>> /\ Head(u) \in {"-", "+"} /\ IsDigits(Tail(u)))

IntOf(t) ==
    LET u == Strip(t)
    IN  IF Head(u) = "-" THEN 0 - DigitsVal(Tail(u))
        ELSE IF Head(u) = "+" THEN DigitsVal(Tail(u))
        ELSE DigitsVal(u)

\* The position of the decimal point of t, or 0.
PointAt(t) == IF \E k \in 1..Len(t) : t[k] = "."
              THEN CHOOSE k \in 1..Len(t) : t[k] = "." /\ \A h \in 1..(k - 1) : t[h] # "."
              ELSE 0

\* A float literal of a whole number, as to_csv writes a float64 cell ("30.0").
\* (The datasets hold whole numbers only; a fraction other than zeros is text here.)
IsFloatLit(t) ==
    LET u == Strip(t)
        k == PointAt(u)
    IN  /\ k > 1
        /\ IsIntLit(SubSeq(u, 1, k - 1))
        /\ \A h \in (k + 1)..Len(u) : u[h] = "0"

FloatOf(t) == IntOf(SubSeq(Strip(t), 1, PointAt(Strip(t)) - 1))

\* Cell j of row i; a short row is padded with missing cells.
CellText(c, i, j) == IF j <= Len(c.rows[i]) THEN c.rows[i][j] ELSE <<>>

\* dtype inference of column j: int64, float64 (a float literal, or ints with
\* missing cells), object.
ColKind(c, j) ==
    LET texts == {CellText(c, i, j) : i \in 1..Len(c.rows)}
        data  == {t \in texts : ~IsNA(t)}
    IN  IF \A t \in data : IsIntLit(t)
        THEN (IF \E t \in texts : IsNA(t) THEN "float" ELSE "int")
        ELSE IF \A t \in data : IsIntLit(t) \/ IsFloatLit(t) THEN "float"
        ELSE "object"

ParseCell(kind, t) ==
    IF IsNA(t) THEN NaN
    ELSE IF kind = "int" THEN IntV(IntOf(t))
    ELSE IF kind = "float" THEN FloatV(IF IsIntLit(t) THEN IntOf(t) ELSE FloatOf(t))
    ELSE StrV(t)

\* A DataFrame: column names in order, rows of cells aligned with them.
EmptyFrame == [cols |-> <<>>, rows |-> <<>>]

\* pd.read_csv raises: no file (FileNotFoundError), no header line
\* (EmptyDataError), a row with more fields than the header (ParserError).
ReadCsvRaises(c) ==
    \/ c.kind # "csv"
    \/ c.header = <<>>
    \/ \E i \in 1..Len(c.rows) : Len(c.rows[i]) > Len(c.header)

ReadCsv(c) ==
    [cols |-> c.header,
     rows |-> [i \in 1..Len(c.rows) |->
                 [j \in 1..Len(c.header) |-> ParseCell(ColKind(c, j), CellText(c, i, j))]]]

(* ------------------------------------------------------------------ *)
(* The DataFrame operations the script uses                            *)
(* ------------------------------------------------------------------ *)

HasCol(t, name) == \E j \in 1..Len(t.cols) : t.cols[j] = name

ColIdx(t, name) == CHOOSE j \in 1..Len(t.cols) :
                      /\ t.cols[j] = name
                      /\ \A h \in 1..(j - 1) : t.cols[h] # name

\* df[name] as the sequence of its values
Col(t, name) == [i \in 1..Len(t.rows) |-> t.rows[i][ColIdx(t, name)]]

\* df.empty
IsEmpty(t) == t.cols = <<>> \/ t.rows = <<>>

\* df[name] = values: overwrite the column, or append it.
SetCol(t, name, vals) ==
    IF HasCol(t, name)
    THEN [t EXCEPT !.rows = [i \in 1..Len(t.rows) |->
                               [t.rows[i] EXCEPT ![ColIdx(t, name)] = vals[i]]]]
    ELSE [cols |-> Append(t.cols, name),
          rows |-> [i \in 1..Len(t.rows) |-> Append(t.rows[i], vals[i])]]

(* ------------------------------------------------------------------ *)
(* load_data                                                           *)
(* ------------------------------------------------------------------ *)

DATA_PATH == "employee_attrition.csv"
NoPath == "None"

\* A mutation of StripColumns: only leading whitespace is removed.
StripColumnsLeftOnly(t) == [t EXCEPT !.cols = [j \in 1..Len(t.cols) |-> LStrip(t.cols[j])]]

\* df_local.columns = [c.strip() for c in df_local.columns]
StripColumns(t) == [t EXCEPT !.cols = [j \in 1..Len(t.cols) |-> Strip(t.cols[j])]]

\* The try block of load_data: the frame read, or "raised".
\* fs is the content of the file at DATA_PATH.
LoadTry(path, uploaded, fs) ==
    IF uploaded.kind # "none"
    THEN (IF ReadCsvRaises(uploaded) THEN [raised |-> TRUE, df |-> EmptyFrame]
          ELSE [raised |-> FALSE, df |-> ReadCsv(uploaded)])
    ELSE IF path # NoPath
    THEN (IF ReadCsvRaises(fs) THEN [raised |-> TRUE, df |-> EmptyFrame]
          ELSE [raised |-> FALSE, df |-> ReadCsv(fs)])
    ELSE [raised |-> FALSE, df |-> EmptyFrame]

\* A mutation of LoadExcept: the except branch is missing, the error escapes.
LoadNoExcept(r) == [raised |-> r.raised, df |-> StripColumns(r.df)]

\* Lines 57-60: the except branch, then the column names are trimmed.
LoadExcept(r) ==
    [raised |-> FALSE, df |-> StripColumns(IF r.raised THEN EmptyFrame ELSE r.df)]

\* The body of load_data (without the cache).
load_data(path, uploaded, fs) == LoadExcept(LoadTry(path, uploaded, fs))

\* st.cache_data keys an entry by the arguments: the path string and the
\* uploaded file's content.  The file behind the path is not part of the key.
CacheKey(path, uploaded) == [path |-> path, up |-> uploaded]

(* ------------------------------------------------------------------ *)
(* Ordering of values (groupby sorts its keys, sorted() of strings)    *)
(* ------------------------------------------------------------------ *)

\* The characters the inputs use, in code-point order.
Ascii ==
    << " ", "+", "-", ".", "/",
       "0", "1", "2", "3", "4", "5", "6", "7", "8", "9",
       "A", "B", "C", "D", "E", "F", "G", "H", "I", "J", "K", "L", "M",
       "N", "O", "P", "Q", "R", "S", "T", "U", "V", "W", "X", "Y", "Z",
       "_",
       "a", "b", "c", "d", "e", "f", "g", "h", "i", "j", "k", "l", "m",
       "n", "o", "p", "q", "r", "s", "t", "u", "v", "w", "x", "y", "z" >>

CharRank(c) == CHOOSE i \in 1..Len(Ascii) : Ascii[i] = c

RECURSIVE TextLess(_, _)
TextLess(a, b) ==
    IF a = <<>> THEN b # <<>>
    ELSE IF b = <<>> THEN FALSE
    ELSE IF Head(a) = Head(b) THEN TextLess(Tail(a), Tail(b))
    ELSE CharRank(Head(a)) < CharRank(Head(b))

\* a < b for two values of one column (one dtype).
ValLess(a, b) == IF IsNum(a) /\ IsNum(b) THEN a.n < b.n ELSE TextLess(PyStr(a), PyStr(b))

RECURSIVE SortedSeq(_)
SortedSeq(S) ==
    IF S = {} THEN <<>>
    ELSE LET m == CHOOSE x \in S : \A y \in S \ {x} : ValLess(x, y)
         IN  <<m>> \o SortedSeq(S \ {m})

(* ------------------------------------------------------------------ *)
(* Numbers                                                             *)
(* ------------------------------------------------------------------ *)

RECURSIVE SumSeq(_)
SumSeq(q) == IF q = <<>> THEN 0 ELSE Head(q) + SumSeq(Tail(q))

\* round(num / den) to the nearest integer, ties to even (Python's round
\* on a value that is exact in binary); den > 0.
RoundHalfEven(num, den) ==
    LET q == num \div den
        r == num % den
    IN  IF 2 * r < den THEN q
        ELSE IF 2 * r > den THEN q + 1
        ELSE IF q % 2 = 0 THEN q ELSE q + 1

\* int(num / den): truncation toward zero; den > 0.
TruncDiv(num, den) == IF num >= 0 THEN num \div den ELSE 0 - ((0 - num) \div den)

(* ------------------------------------------------------------------ *)
(* Derived columns (lines 73-89)                                       *)
(* ------------------------------------------------------------------ *)

Truthy == { <<"y", "e", "s">>, <<"y">>, <<"t", "r", "u", "e">>, <<"1">> }

\* A mutation of AttritionFlag: the value is not trimmed.
AttritionFlagNoStrip(x) == IF Lower(PyStr(x)) \in Truthy THEN 1 ELSE 0

\* lambda x: 1 if str(x).strip().lower() in ['yes','y','true','1'] else 0
AttritionFlag(x) == IF Lower(Strip(PyStr(x))) \in Truthy THEN 1 ELSE 0

\* Lines 76-80: Attrition_bool is derived only when the column is absent.
EnsureAttritionBool(t) ==
    IF ~HasCol(t, ATTRITION_BOOL)
    THEN IF HasCol(t, ATTRITION)
         THEN SetCol(t, ATTRITION_BOOL,
                     [i \in 1..Len(t.rows) |-> IntV(AttritionFlag(Col(t, ATTRITION)[i]))])
         ELSE SetCol(t, ATTRITION_BOOL, [i \in 1..Len(t.rows) |-> IntV(0)])
    ELSE t

bins == <<17, 25, 35, 45, 55, 100>>
labels ==
    << <<"1", "8", "-", "2", "5">>, <<"2", "6", "-", "3", "5">>,
       <<"3", "6", "-", "4", "5">>, <<"4", "6", "-", "5", "5">>, <<"5", "5", "+">> >>

\* A mutation of Cut: the first interval is open on the left (include_lowest=False).
CutOpenLowest(x) ==
    IF \E b \in 1..Len(labels) : bins[b] < x /\ x <= bins[b + 1]
    THEN StrV(labels[CHOOSE b \in 1..Len(labels) : bins[b] < x /\ x <= bins[b + 1]])
    ELSE NaN

\* pd.cut(x, bins, labels, include_lowest=True) of one number: the intervals
\* are (bins[b], bins[b+1]], the first one closed on the left as well.
Cut(x) ==
    LET in(b) == \/ (bins[b] < x /\ x <= bins[b + 1])
                 \/ (b = 1 /\ x = bins[1])
    IN  IF \E b \in 1..Len(labels) : in(b)
        THEN StrV(labels[CHOOSE b \in 1..Len(labels) : in(b)])
        ELSE NaN

\* df['Age'].fillna(-1)
FillNa(v) == IF IsNull(v) THEN IntV(-1) ELSE v

\* pd.cut raises on a column that is not numeric (object dtype).
CutRaises(t) == \E i \in 1..Len(t.rows) : Col(t, AGE)[i].k = "str"

\* A mutation of AgeBucketStep: the sentinel is written into the Age column.
AgeBucketStepFillInPlace(t) ==
    IF HasCol(t, AGE)
    THEN IF CutRaises(t)
         THEN SetCol(t, AGEBUCKET, [i \in 1..Len(t.rows) |-> NaN])
         ELSE SetCol(SetCol(t, AGE, [i \in 1..Len(t.rows) |-> FillNa(Col(t, AGE)[i])]),
                     AGEBUCKET, [i \in 1..Len(t.rows) |-> Cut(FillNa(Col(t, AGE)[i]).n)])
    ELSE t

\* Lines 83-89.
AgeBucketStep(t) ==
    IF HasCol(t, AGE)
    THEN IF CutRaises(t)
         THEN SetCol(t, AGEBUCKET, [i \in 1..Len(t.rows) |-> NaN])
         ELSE SetCol(t, AGEBUCKET, [i \in 1..Len(t.rows) |-> Cut(FillNa(Col(t, AGE)[i]).n)])
    ELSE t

\* Lines 73-89 on the loaded frame.
Derive(t) == AgeBucketStep(EnsureAttritionBool(StripColumns(t)))

(* ------------------------------------------------------------------ *)
(* KPIs (lines 91-96)                                                  *)
(* ------------------------------------------------------------------ *)

\* The non-missing values of a column, in row order.
DropNa(q) == SelectSeq(q, LAMBDA v : ~IsNull(v))

IsObjectCol(q) == \E i \in 1..Len(q) : q[i].k = "str"

RECURSIVE ConcatText(_)
ConcatText(q) == IF q = <<>> THEN <<>> ELSE PyStr(Head(q)) \o ConcatText(Tail(q))

\* Series.sum() of a numeric column skips the missing values.
NumSumOf(q) == SumSeq([i \in 1..Len(q) |-> q[i].n])
NumSum(q) == NumSumOf(DropNa(q))

\* int(df['Attrition_bool'].sum()) raises: the sum of an object column is the
\* concatenation of its strings (a missing value among them cannot be added),
\* and int() of a text that is no integer literal is a ValueError.
IntSumRaises(q) ==
    /\ IsObjectCol(q)
    /\ \/ \E i \in 1..Len(q) : IsNull(q[i])
       \/ ~IsIntLit(ConcatText(q))

IntSum(q) == IF IsObjectCol(q) THEN IntOf(ConcatText(q)) ELSE NumSum(q)

\* df[name] when the column exists, no values otherwise
ColOrNone(t, name) == IF HasCol(t, name) THEN Col(t, name) ELSE <<>>

\* Series.mean() raises on an object column that holds strings.
MeanRaises(t, name) == IsObjectCol(ColOrNone(t, name))

NotAvailable == [na |-> TRUE, v |-> 0]
Available(v) == [na |-> FALSE, v |-> v]

\* round(mean, 1) of the non-missing values q, in tenths; "N/A" without any.
Round1Mean(q) ==
    IF q # <<>>
    THEN Available(RoundHalfEven(10 * SumSeq([i \in 1..Len(q) |-> q[i].n]), Len(q)))
    ELSE NotAvailable

\* int(mean) of the non-missing values q; "N/A" without any.
IntMean(q) ==
    IF q # <<>>
    THEN Available(TruncDiv(SumSeq([i \in 1..Len(q) |-> q[i].n]), Len(q)))
    ELSE NotAvailable

\* round(df[name].mean(), 1) if name in df.columns and df[name].dropna().size>0 else "N/A"
MeanRound1(t, name) == Round1Mean(DropNa(ColOrNone(t, name)))

\* int(df[name].mean()) if name in df.columns and df[name].dropna().size>0 else "N/A"
MeanInt(t, name) == IntMean(DropNa(ColOrNone(t, name)))

\* round(100 * attrition_count / total_employees, 1) if total_employees else 0,
\* in tenths of a percent.
AttritionRate(count, total) ==
    IF total # 0 THEN RoundHalfEven(1000 * count, total) ELSE 0

\* The first of lines 92, 94, 95, 96 that raises on the derived frame t, or 0.
KpiRaisesAt(t) ==
    IF IntSumRaises(Col(t, ATTRITION_BOOL)) THEN 92
    ELSE IF MeanRaises(t, AGE) THEN 94
    ELSE IF MeanRaises(t, MONTHLYINCOME) THEN 95
    ELSE IF MeanRaises(t, YEARSATCOMPANY) THEN 96
    ELSE 0

KpiRecord(t, count) ==
    [total_employees |-> Len(t.rows),
     attrition_count |-> count,
     attrition_rate  |-> AttritionRate(count, Len(t.rows)),
     avg_age         |-> MeanRound1(t, AGE),
     avg_income      |-> MeanInt(t, MONTHLYINCOME),
     avg_years       |-> MeanRound1(t, YEARSATCOMPANY)]

\* Lines 91-96 on the derived frame t (the values when nothing raises).
Kpis(t) ==
    KpiRecord(t, IF HasCol(t, ATTRITION_BOOL) THEN IntSum(Col(t, ATTRITION_BOOL)) ELSE 0)

NoKpis ==
    [total_employees |-> 0, attrition_count |-> 0, attrition_rate |-> 0,
     avg_age |-> NotAvailable, avg_income |-> NotAvailable, avg_years |-> NotAvailable]

(* ------------------------------------------------------------------ *)
(* Risk groups (lines 98-119)                                          *)
(* ------------------------------------------------------------------ *)

\* The "N/A" the script starts risk_by_dept and risk_by_job with.
NA_KEY == StrV(<<"N", "/", "A">>)

\* df.groupby(dim).agg(total=(flag,'count'), left=(flag,'sum')) and the rate
\* column: one row per distinct non-missing value of dim, in sorted key order;
\* count and sum skip missing flags; rate = 100 * left / total as a fraction.
GroupAgg(t, dim) ==
    LET keys == SortedSeq({Col(t, dim)[i] : i \in 1..Len(t.rows)} \ {NaN})
        flag == Col(t, ATTRITION_BOOL)
        row(key) ==
            LET members == SelectSeq([i \in 1..Len(t.rows) |->
                                        IF Col(t, dim)[i] = key THEN flag[i] ELSE NaN],
                                     LAMBDA v : ~IsNull(v))
                left == SumSeq([i \in 1..Len(members) |-> members[i].n])
            IN  [key |-> key, total |-> Len(members), left |-> left,
                 rate |-> [num |-> 100 * left, den |-> Len(members)]]
    IN  [g \in 1..Len(keys) |-> row(keys[g])]

\* 100 * left / total raises on the strings an object flag column sums to.
GroupRaises(t) == IsObjectCol(Col(t, ATTRITION_BOOL))

RateDefined(r) == r.rate.den # 0
RateLess(a, b) == a.rate.num * b.rate.den < b.rate.num * a.rate.den

\* A mutation of IdxMax: the last of the maximal rows is taken.
IdxMaxLast(g) ==
    LET best == {i \in 1..Len(g) : RateDefined(g[i]) /\
                    \A h \in 1..Len(g) : RateDefined(g[h]) => ~RateLess(g[i], g[h])}
    IN  IF best = {} THEN NaN
        ELSE g[CHOOSE i \in best : \A h \in best : h <= i].key

\* grp['rate'].idxmax(): the key of the first row with the largest rate,
\* undefined rates (0 / 0) skipped.
IdxMax(g) ==
    LET best == {i \in 1..Len(g) : RateDefined(g[i]) /\
                    \A h \in 1..Len(g) : RateDefined(g[h]) => ~RateLess(g[i], g[h])}
    IN  IF best = {} THEN NaN
        ELSE g[CHOOSE i \in best : \A h \in best : i <= h].key

\* The try block of lines 104-108 / 113-117 with g the grouped frame: what
\* the two names hold when it ends, and whether it raised.
GroupTryOn(raises, g) ==
    IF raises THEN [raised |-> TRUE, grp |-> g, top |-> NA_KEY]
    ELSE [raised |-> FALSE, grp |-> g, top |-> IF g # <<>> THEN IdxMax(g) ELSE NA_KEY]

GroupTry(t, dim) == GroupTryOn(GroupRaises(t), GroupAgg(t, dim))

\* A mutation of GroupExcept: the except branch does not reset the groups.
GroupExceptNoReset(r) == [grp |-> r.grp, top |-> r.top]

\* Lines 109-110 / 118-119: except Exception: grp = pd.DataFrame()
GroupExcept(r) == IF r.raised THEN [grp |-> <<>>, top |-> r.top] ELSE [grp |-> r.grp, top |-> r.top]

\* Lines 99-119 for one dimension: (grp_dept, risk_by_dept) or (grp_job, risk_by_job).
RiskGroup(t, dim) ==
    IF HasCol(t, dim) /\ HasCol(t, ATTRITION_BOOL)
    THEN GroupExcept(GroupTry(t, dim))
    ELSE [grp |-> <<>>, top |-> NA_KEY]

(* ------------------------------------------------------------------ *)
(* Pages: what each one computes and shows                             *)
(* ------------------------------------------------------------------ *)

YES == <<"Y", "E", "S">>
LOWER_YES == <<"y", "e", "s">>

\* needle in text
Contains(needle, text) ==
    \E i \in 1..(Len(text) - Len(needle) + 1) :
        SubSeq(text, i, i + Len(needle) - 1) = needle

Count(q, P(_)) == Len(SelectSeq(q, P))

Shown(kind, v) == [kind |-> kind, v |-> v]

NoView ==
    [dept_txt |-> NA_KEY, job_txt |-> NA_KEY, ot_pct |-> Shown("unset", 0),
     attr_rate_local |-> Shown("unset", 0), avg_age_local |-> Shown("unset", 0),
     avg_inc_local |-> Shown("unset", 0), answer |-> "unset", exported |-> Nothing]

\* risk_by_dept if isinstance(risk_by_dept, str) else "N/A"
KeyText(key) == IF key.k = "str" THEN key ELSE NA_KEY

\* page_overview, lines 352-398: the two risk texts and the overtime share
\* (tenths of a percent).
page_overview(t, kpi, rdept, rjob) ==
    [NoView EXCEPT
       !.dept_txt = KeyText(rdept),
       !.job_txt  = KeyText(rjob),
       !.ot_pct   = IF HasCol(t, OVERTIME)
                    THEN Shown("num", RoundHalfEven(
                             1000 * Count(Col(t, OVERTIME), LAMBDA v : v = StrV(YES)),
                             kpi.total_employees))
                    ELSE Shown("N/A", 0)]

LocalMeanOf(q) ==
    IF q = <<>> THEN Shown("nan", 0)
    ELSE Shown("num", RoundHalfEven(10 * NumSumOf(q), Len(q)))

\* round(df[name].mean(), 1) without the guard on missing values: nan when
\* the column has no value.
LocalMean(t, name) ==
    IF ~HasCol(t, name) THEN Shown("N/A", 0) ELSE LocalMeanOf(DropNa(Col(t, name)))

\* page_visuals, lines 515-518: the snapshot numbers (the charts are drawing only).
page_visuals(t) ==
    [NoView EXCEPT
       !.attr_rate_local =
           IF HasCol(t, ATTRITION)
           THEN Shown("num", RoundHalfEven(
                    1000 * Count(Col(t, ATTRITION), LAMBDA v : Lower(PyStr(v)) = LOWER_YES),
                    Len(t.rows)))
           ELSE Shown("N/A", 0),
       !.avg_age_local = LocalMean(t, AGE),
       !.avg_inc_local = LocalMean(t, MONTHLYINCOME)]

Q_JOB  == <<"h", "i", "g", "h", " ", "r", "i", "s", "k", " ", "j", "o", "b">>
Q_DEPT == <<"h", "i", "g", "h", " ", "r", "i", "s", "k", " ", "d", "e", "p", "t">>
Q_OT   == <<"o", "v", "e", "r", "t", "i", "m", "e">>

\* df.groupby(['OverTime','Attrition']) raises KeyError without the column.
OvertimeTableRaises(t) == ~HasCol(t, ATTRITION)

\* A mutation of page_assistant: the overtime answer also checks 'Attrition'.
page_assistant_guarded(t, gdept, gjob, q, send) ==
    IF ~send THEN [raised |-> FALSE, answer |-> "none"]
    ELSE IF Contains(Q_JOB, Lower(q))
    THEN [raised |-> FALSE,
          answer |-> IF gjob # <<>> THEN "top job rates" ELSE "JobRole data missing"]
    ELSE IF Contains(Q_DEPT, Lower(q))
    THEN [raised |-> FALSE,
          answer |-> IF gdept # <<>> THEN "top dept rates" ELSE "Department data missing"]
    ELSE IF Contains(Q_OT, Lower(q))
    THEN [raised |-> FALSE,
          answer |-> IF HasCol(t, OVERTIME) /\ HasCol(t, ATTRITION)
                     THEN "overtime table" ELSE "OverTime missing"]
    ELSE [raised |-> FALSE, answer |-> "try"]

\* page_assistant, lines 753-775: q is the text typed, send the button.
page_assistant(t, gdept, gjob, q, send) ==
    IF ~send THEN [raised |-> FALSE, answer |-> "none"]
    ELSE IF Contains(Q_JOB, Lower(q))
    THEN [raised |-> FALSE,
          answer |-> IF gjob # <<>> THEN "top job rates" ELSE "JobRole data missing"]
    ELSE IF Contains(Q_DEPT, Lower(q))
    THEN [raised |-> FALSE,
          answer |-> IF gdept # <<>> THEN "top dept rates" ELSE "Department data missing"]
    ELSE IF Contains(Q_OT, Lower(q))
    THEN IF HasCol(t, OVERTIME)
         THEN [raised |-> OvertimeTableRaises(t), answer |-> "overtime table"]
         ELSE [raised |-> FALSE, answer |-> "OverTime missing"]
    ELSE [raised |-> FALSE, answer |-> "try"]

\* A mutation of CellOut: text is written without the whitespace around it.
CellOutTrimmed(v) == IF IsNull(v) THEN <<>> ELSE Strip(PyStr(v))

\* One cell of df.to_csv(index=False): a number in its repr, a missing value
\* as the empty field.
CellOut(v) == IF IsNull(v) THEN <<>> ELSE PyStr(v)

\* page_export, lines 825-827: df.to_csv(index=False)
page_export(t) ==
    Csv(t.cols, [i \in 1..Len(t.rows) |-> [j \in 1..Len(t.cols) |-> CellOut(t.rows[i][j])]])

(* ------------------------------------------------------------------ *)
(* Predictor (lines 780-820)                                           *)
(* ------------------------------------------------------------------ *)

Candidates == <<AGE, MONTHLYINCOME, YEARSATCOMPANY, DISTANCE, JOBSAT, OVERTIME>>

\* A mutation of Features: the columns of the table are walked, not the list.
FeaturesInTableOrder(t) ==
    SelectSeq(t.cols, LAMBDA c : \E i \in 1..Len(Candidates) : Candidates[i] = c)

\* [c for c in [...] if c in df.columns]
Features(t) == SelectSeq(Candidates, LAMBDA c : HasCol(t, c))

\* X.select_dtypes(include=[np.number]): the columns that are not object.
IsNumericCol(t, c) == ~IsObjectCol(Col(t, c))

AllRows(t) == 1..Len(t.rows)

\* The values of y on a set of rows (y.nunique() skips missing values).
Classes(t, rows) == {Col(t, ATTRITION_BOOL)[i] : i \in rows} \ {NaN}

ClassRows(t, c) == {i \in AllRows(t) : Col(t, ATTRITION_BOOL)[i] = c}

MinSplitRows == 10

\* A mutation of UseSplit: the threshold is exclusive.
UseSplitAbove(t) == Cardinality(Classes(t, AllRows(t))) > 1 /\ Len(t.rows) > MinSplitRows

\* y.nunique() > 1 and len(X) >= 10
UseSplit(t) == Cardinality(Classes(t, AllRows(t))) > 1 /\ Len(t.rows) >= MinSplitRows

\* ceil(0.2 * n), the size of the test part
NTest(n) == (2 * n + 9) \div 10

\* train_test_split(..., stratify=y) raises ValueError: a class with a single
\* member, or fewer test or train rows than classes.
SplitRaises(t) ==
    LET n == Len(t.rows)
        cs == Classes(t, AllRows(t))
    IN  \/ \E c \in cs : Cardinality(ClassRows(t, c)) < 2
        \/ NTest(n) < Cardinality(cs)
        \/ n - NTest(n) < Cardinality(cs)

\* T is a stratified test part of n rows: the right size, and from each
\* class its share rounded down or up.
Stratified(t, T, n) ==
    /\ Cardinality(T) = NTest(n)
    /\ \A c \in Classes(t, AllRows(t)) :
          /\ (Cardinality(ClassRows(t, c)) * NTest(n)) \div n
                <= Cardinality(T \cap ClassRows(t, c))
          /\ Cardinality(T \cap ClassRows(t, c))
                <= (Cardinality(ClassRows(t, c)) * NTest(n) + n - 1) \div n

\* Of the test parts that differ only by exchanging employees with equal
\* records, the one that takes the earlier of them is kept.
Canonical(t, T) ==
    \A i \in AllRows(t), j \in T : (i < j /\ t.rows[i] = t.rows[j]) => i \in T

\* train_test_split(X, y, test_size=0.2, random_state=42, stratify=y): the
\* rows drawn depend on the shuffle, so every stratified test part is possible.
Splits(t) ==
    {[train |-> AllRows(t) \ T, test |-> T] :
        T \in {T \in SUBSET AllRows(t) : Stratified(t, T, Len(t.rows)) /\ Canonical(t, T)}}

\* X_train, X_test = X, X
NoSplit(t) == [train |-> AllRows(t), test |-> AllRows(t)]

\* model.fit raises: LogisticRegression needs two classes in y_train, and a
\* y_train without missing values or text.
FitRaises(t, train) ==
    \/ Cardinality(Classes(t, train)) < 2
    \/ \E i \in train : ~IsNum(Col(t, ATTRITION_BOOL)[i])

\* OneHotEncoder.categories_ of a column after fit: the sorted distinct values
\* of the training rows (the imputer fills a missing one with the most
\* frequent of them, which adds none).
FitCategories(t, c, train) == SortedSeq({Col(t, c)[i] : i \in train} \ {NaN})

\* A mutation of handle_unknown: the encoder's default.
handle_unknown_error == "error"

\* OneHotEncoder(handle_unknown='ignore')
handle_unknown == "ignore"

\* The most frequent training value (the smallest among equals), which the
\* imputer puts in place of a missing input.
MostFrequent(t, c, train) ==
    LET vals == {Col(t, c)[i] : i \in train} \ {NaN}
        cnt(v) == Cardinality({i \in train : Col(t, c)[i] = v})
    IN  IF vals = {} THEN NaN
        ELSE CHOOSE v \in vals :
               \A w \in vals \ {v} : cnt(w) < cnt(v) \/ (cnt(w) = cnt(v) /\ ValLess(v, w))

\* The encoder on one input value: its one-hot row, all zeros for a value
\* that is no category when unknown values are ignored; raised otherwise.
Encode(cats, v) ==
    [raised |-> (\A j \in 1..Len(cats) : cats[j] # v) /\ handle_unknown # "ignore",
     row    |-> [j \in 1..Len(cats) |-> IF cats[j] = v THEN 1 ELSE 0]]

\* sorted(df[f].dropna().unique().tolist()): the options of the OverTime box
OverTimeOptions(t) == SortedSeq({Col(t, OVERTIME)[i] : i \in AllRows(t)} \ {NaN})

NoPred ==
    [features |-> <<>>, msg |-> "none", pstate |-> "Unbuilt", ops |-> <<>>,
     train |-> {}, test |-> {}, cats |-> <<>>, inputs |-> <<>>, enc |-> <<>>,
     outcome |-> "none", proba |-> 0]

\* The inputs of the form: the OverTime box holds ot, every number field num.
FormInputs(t, ot, num) ==
    [f \in 1..Len(Features(t)) |->
        IF Features(t)[f] = OVERTIME THEN ot ELSE FloatV(num)]

\* Lines 815-820 on a fitted model m: predict_proba of the one-row frame.
\* p is the probability the classifier returns, in steps of 1 / ProbaSteps.
Predict(t, m, ot, num, p) ==
    LET inputs == FormInputs(t, ot, num)
        x(f) == IF IsNull(inputs[f]) THEN MostFrequent(t, m.features[f], m.train)
                ELSE inputs[f]
        enc == [f \in 1..Len(m.features) |->
                   IF IsNumericCol(t, m.features[f]) THEN <<>>
                   ELSE Encode(m.cats[f], x(f)).row]
        bad == \E f \in 1..Len(m.features) :
                   ~IsNumericCol(t, m.features[f]) /\ Encode(m.cats[f], x(f)).raised
    IN  IF bad
        THEN [m EXCEPT !.ops = Append(m.ops, "predict"), !.inputs = inputs,
                       !.outcome = "prediction error"]
        ELSE [m EXCEPT !.ops = Append(m.ops, "predict"), !.inputs = inputs,
                       !.enc = enc, !.outcome = "probability", !.proba = p]

\* Lines 786-820 once the features are chosen and the rows are split.
BuildAndServe(t, sp, split, submitted, ot, num, p) ==
    LET ops == IF split THEN <<"split", "fit">> ELSE <<"fit">>
        m == [NoPred EXCEPT !.features = Features(t), !.ops = ops,
                            !.train = sp.train, !.test = sp.test]
    IN  IF FitRaises(t, sp.train)
        THEN [m EXCEPT !.msg = "Model training failed"]
        ELSE LET fitted == [m EXCEPT
                               !.msg = "Model trained (demo)", !.pstate = "Fitted",
                               !.cats = [f \in 1..Len(Features(t)) |->
                                            IF IsNumericCol(t, Features(t)[f]) THEN <<>>
                                            ELSE FitCategories(t, Features(t)[f], sp.train)]]
             IN  IF submitted THEN Predict(t, fitted, ot, num, p) ELSE fitted

\* A mutation of page_predictor: the split is called inside the try block,
\* so its error is reported as a training failure.
page_predictor_split_in_try(t, submitted, ot, num, probas) ==
    IF Features(t) = <<>>
    THEN {[raised |-> FALSE,
           pred |-> [NoPred EXCEPT !.msg = "Not enough features for predictor demo."]]}
    ELSE IF UseSplit(t) /\ SplitRaises(t)
    THEN {[raised |-> FALSE,
           pred |-> [NoPred EXCEPT !.features = Features(t), !.ops = <<"split">>,
                                   !.msg = "Model training failed"]]}
    ELSE {[raised |-> FALSE,
           pred |-> BuildAndServe(t, sp, UseSplit(t), submitted, ot, num, p)] :
             sp \in (IF UseSplit(t) THEN Splits(t) ELSE {NoSplit(t)}), p \in probas}

\* page_predictor, lines 780-820: every way the page can end.
page_predictor(t, submitted, ot, num, probas) ==
    IF Features(t) = <<>>
    THEN {[raised |-> FALSE,
           pred |-> [NoPred EXCEPT !.msg = "Not enough features for predictor demo."]]}
    ELSE IF UseSplit(t) /\ SplitRaises(t)
    THEN {[raised |-> TRUE,
           pred |-> [NoPred EXCEPT !.features = Features(t), !.ops = <<"split">>]]}
    ELSE {[raised |-> FALSE,
           pred |-> BuildAndServe(t, sp, UseSplit(t), submitted, ot, num, p)] :
             sp \in (IF UseSplit(t) THEN Splits(t) ELSE {NoSplit(t)}), p \in probas}

(* ------------------------------------------------------------------ *)
(* The datasets the checks draw from                                   *)
(* ------------------------------------------------------------------ *)

MaxRows == 3
MaxAgeRows == 2
MaxFlagRows == 2
MaxPredRows == 11
MaxPos == 2
ProbaSteps == 1

SeqsUpTo(S, n) == UNION {[1..k -> S] : k \in 0..n}

\* An Attrition column alone: spellings of yes and no, a number, a gap.
AttrTexts == { <<"Y", "e", "s">>, <<"N", "o">>, <<" ", "y", "e", "s", " ">>, <<"T", "R", "U", "E">>, <<"1">>, <<>> }
FamAttr == {Csv(<<ATTRITION>>, [i \in 1..Len(q) |-> <<q[i]>>]) : q \in SeqsUpTo(AttrTexts, MaxRows)}

\* A dataset that already has an Attrition_bool column (a re-uploaded export,
\* or any file with a column of that name).
FlagRows == {<<a, f>> : a \in {<<"Y", "e", "s">>, <<"N", "o">>}, f \in {<<"0">>, <<"1">>, <<"2">>, <<"-">>, <<>>}}
FamFlag == {Csv(<<ATTRITION, ATTRITION_BOOL>>, q) : q \in SeqsUpTo(FlagRows, MaxFlagRows)}

\* A grouping dimension beside an Attrition_bool column that came with the file.
FlagGroupRows == {<<d, f>> : d \in {<<"H", "R">>, <<"I", "T">>}, f \in {<<"0">>, <<"1">>, <<"-">>, <<>>}}
FamFlagGroup == {Csv(<<DEPARTMENT, ATTRITION_BOOL>>, q) : q \in SeqsUpTo(FlagGroupRows, MaxFlagRows)}

\* An Age column alone: the band edges, their neighbours, a gap, a word.
AgeTexts == { <<"1", "6">>, <<"1", "7">>, <<"1", "8">>, <<"2", "5">>, <<"2", "6">>, <<"3", "5">>, <<"3", "6">>, <<"5", "5">>, <<"5", "6">>, <<"1", "0", "0">>, <<"1", "0", "1">>,
              <<>>, <<"a", "b", "c">> }
FamAge == {Csv(<<AGE>>, [i \in 1..Len(q) |-> <<q[i]>>]) : q \in SeqsUpTo(AgeTexts, MaxAgeRows)}

\* One grouping dimension with the Attrition column.
GroupRows == {<<d, a>> : d \in {<<"H", "R">>, <<"I", "T">>, <<>>, <<"7">>}, a \in {<<"Y", "e", "s">>, <<"N", "o">>}}
FamGroup == {Csv(<<dim, ATTRITION>>, q) :
               dim \in {DEPARTMENT, JOBROLE}, q \in SeqsUpTo(GroupRows, MaxRows)}

\* Every subset of the expected columns (in the order of the IBM dataset),
\* with two fixed employees.
Expected ==
    <<AGE, ATTRITION, DEPARTMENT, DISTANCE, JOBROLE, JOBSAT, MONTHLYINCOME,
      OVERTIME, YEARSATCOMPANY>>
Employee1 == << <<"3", "0">>, <<"Y", "e", "s">>, <<"H", "R">>, <<"7">>, <<"D", "e", "v">>, <<"4">>, <<"5", "0", "0", "0">>, <<"Y", "e", "s">>, <<"3">> >>
Employee2 == << <<"4", "1">>, <<"N", "o">>, <<"I", "T">>, <<"2">>, <<"O", "p", "s">>, <<"1">>, <<"6", "0", "0", "1">>, <<"N", "o">>, <<"1", "0">> >>
Pick(q, S) == LET F[i \in 0..Len(q)] ==
                      IF i = 0 THEN <<>>
                      ELSE IF i \in S THEN Append(F[i - 1], q[i]) ELSE F[i - 1]
              IN  F[Len(q)]
FamSchema == {Csv(Pick(Expected, S), <<Pick(Employee1, S), Pick(Employee2, S)>>) :
                S \in SUBSET (1..Len(Expected))}

\* Datasets around the predictor's 10-row threshold: n employees, the first
\* pos of them attrited, overtime alternating, and optionally one employee
\* with an overtime value no one else has.
PredRow(i, n, pos, rare) ==
    << IF rare /\ i = n THEN <<"M", "a", "y", "b", "e">> ELSE IF i % 2 = 1 THEN <<"Y", "e", "s">> ELSE <<"N", "o">>,
       IF i <= pos THEN <<"Y", "e", "s">> ELSE <<"N", "o">> >>
FamPred == {Csv(<<OVERTIME, ATTRITION>>, [i \in 1..n |-> PredRow(i, n, pos, rare)]) :
              n \in (MaxPredRows - 3)..MaxPredRows, pos \in 0..MaxPos, rare \in BOOLEAN}

\* Files for the loader: padded column names, a second dataset, a row that is
\* too long, an empty file.
LoadContents ==
    { Csv(<<<<" ", "A", "g", "e">>, <<"A", "t", "t", "r", "i", "t", "i", "o", "n", " ">>>>, << <<<<"3", "0">>, <<"Y", "e", "s">>>>, <<<<"4", "1">>, <<"N", "o">>>> >>),
      Csv(<<<<"A", "g", "e">>, <<"O", "v", "e", "r", "T", "i", "m", "e">>>>, << <<<<"5", "2">>, <<"N", "o">>>> >>),
      Csv(<<<<"A", "g", "e">>>>, << <<<<"3", "0">>>>, <<<<"4", "1">>, <<"7">>>> >>),
      Csv(<<>>, <<>>) }

DeriveContents ==
    FamAttr \cup FamFlag \cup FamFlagGroup \cup FamAge \cup FamGroup \cup FamSchema
PredContents == FamPred \cup FamSchema

Queries == { <<"h", "i", "g", "h", " ", "r", "i", "s", "k", " ", "j", "o", "b", "s">>, <<"H", "i", "g", "h", " ", "R", "i", "s", "k", " ", "D", "e", "p", "t">>, <<"O", "V", "E", "R", "T", "I", "M", "E", "?">>, <<"h", "e", "l", "l", "o">> }

(* ------------------------------------------------------------------ *)
(* The session                                                         *)
(* ------------------------------------------------------------------ *)

VARIABLES
    file,          \* the content of the file at DATA_PATH (Nothing: no file)
    upload,        \* the file in the sidebar uploader (Nothing: none)
    cache,         \* st.cache_data's entries of load_data: key -> frame
    step,          \* the last thing that happened: "init", "file", "run"
    page,          \* the page selected in the sidebar
    status,        \* how the last run ended: "init", "stopped", "ok", "crash"
    crash_line,    \* the line whose exception ended the run (0: none)
    loaded,        \* what load_data returned in the last run
    df,            \* the frame of the last run, with its derived columns
    kpi,           \* the KPIs of the last run
    grp_dept, risk_by_dept, grp_job, risk_by_job,
    view,          \* what the page of the last run computed to show
    pred           \* the predictor of the last run

vars == <<file, upload, cache, step, page, status, crash_line, loaded, df, kpi,
          grp_dept, risk_by_dept, grp_job, risk_by_job, view, pred>>

Pages == {"Overview", "Visuals", "Assistant", "Predictor", "Export"}

\* A cache miss: the body's result r is stored under key and returned.
CacheMiss(key, r, entries) ==
    [df |-> r.df, raised |-> r.raised,
     cache |-> IF r.raised THEN entries ELSE (key :> r.df) @@ entries]

CacheLookup(key, path, uploaded, fs, entries) ==
    IF key \in DOMAIN entries
    THEN [df |-> entries[key], raised |-> FALSE, cache |-> entries]
    ELSE CacheMiss(key, load_data(path, uploaded, fs), entries)

\* A mutation of cached_load_data: the content read is part of the key.
content_keyed_load_data(path, uploaded, fs, entries) ==
    CacheLookup([path |-> path, up |-> IF uploaded.kind # "none" THEN uploaded ELSE fs],
                path, uploaded, fs, entries)

\* @st.cache_data around load_data: a hit returns the stored frame without
\* running the body; a miss runs it and stores the result.
cached_load_data(path, uploaded, fs, entries) ==
    CacheLookup(CacheKey(path, uploaded), path, uploaded, fs, entries)

NoArgs == [q |-> <<>>, send |-> FALSE, submitted |-> FALSE, num |-> 0]

Outcome(raised, line, v, p) == [raised |-> raised, line |-> line, view |-> v, pred |-> p]

\* The options the OverTime box of the form can be left at.
OverTimeChoices(t) ==
    IF HasCol(t, OVERTIME) /\ OverTimeOptions(t) # <<>>
    THEN {OverTimeOptions(t)[j] : j \in 1..Len(OverTimeOptions(t))}
    ELSE {NaN}

\* A mutation of PageOutcomes: the fitted model is kept in the session and
\* stays in use when this run's build gave none.
PageOutcomesKeepModel(pg, t, k, gd, gj, a) ==
    IF pg = "Predictor"
    THEN {Outcome(r.raised, IF r.raised THEN 795 ELSE 0, NoView,
                  IF ~r.raised /\ r.pred.pstate = "Unbuilt" /\ pred.pstate = "Fitted"
                  THEN [pred EXCEPT !.outcome = IF a.submitted THEN "probability"
                                                ELSE "none"]
                  ELSE r.pred) :
            r \in UNION {page_predictor(t, a.submitted, ot, a.num,
                                        IF a.submitted THEN 0..ProbaSteps ELSE {0}) :
                           ot \in OverTimeChoices(t)}}
    ELSE {Outcome(FALSE, 0, NoView, NoPred)}

\* The router, lines 832-841: every way the selected page can end.
PageOutcomes(pg, t, k, gd, gj, a) ==
    CASE pg = "Overview" ->
           {Outcome(FALSE, 0, page_overview(t, k, gd.top, gj.top), NoPred)}
      [] pg = "Visuals" ->
           {Outcome(FALSE, 0, page_visuals(t), NoPred)}
      [] pg = "Assistant" ->
           LET r == page_assistant(t, gd.grp, gj.grp, a.q, a.send)
           IN  {Outcome(r.raised, IF r.raised THEN 771 ELSE 0,
                        [NoView EXCEPT !.answer = r.answer], NoPred)}
      [] pg = "Predictor" ->
           {Outcome(r.raised, IF r.raised THEN 795 ELSE 0, NoView, r.pred) :
              r \in UNION {page_predictor(t, a.submitted, ot, a.num,
                                          IF a.submitted THEN 0..ProbaSteps ELSE {0}) :
                             ot \in OverTimeChoices(t)}}
      [] OTHER ->
           {Outcome(FALSE, 0, [NoView EXCEPT !.exported = page_export(t)], NoPred)}

\* The run ends before the KPIs are shown: nothing past the frame is set.
Ends(how, line, t) ==
    /\ status' = how /\ crash_line' = line
    /\ df' = t /\ kpi' = NoKpis
    /\ grp_dept' = <<>> /\ risk_by_dept' = NA_KEY
    /\ grp_job' = <<>> /\ risk_by_job' = NA_KEY
    /\ view' = NoView /\ pred' = NoPred

\* Lines 98-841: the groups, then the selected page.
GroupsAndPage(pg, a, d, k, gd, gj) ==
    /\ df' = d /\ kpi' = k
    /\ grp_dept' = gd.grp /\ risk_by_dept' = gd.top
    /\ grp_job' = gj.grp /\ risk_by_job' = gj.top
    /\ \E o \in PageOutcomes(pg, d, k, gd, gj, a) :
          /\ status' = (IF o.raised THEN "crash" ELSE "ok")
          /\ crash_line' = o.line
          /\ view' = o.view
          /\ pred' = o.pred

\* Lines 91-841 on the derived frame d; line is the KPI line that raises, or 0.
KpisOn(pg, a, d, line) ==
    IF line # 0 THEN Ends("crash", line, d)
    ELSE GroupsAndPage(pg, a, d, Kpis(d), RiskGroup(d, DEPARTMENT), RiskGroup(d, JOBROLE))

\* Lines 91-841 on the derived frame d.
Derived(pg, a, d) == KpisOn(pg, a, d, KpiRaisesAt(d))

\* Lines 63-841 once load_data has returned ld.
Loaded(up, pg, a, ld) ==
    /\ upload' = up
    /\ page' = pg
    /\ step' = "run"
    /\ cache' = ld.cache
    /\ loaded' = ld.df
    /\ UNCHANGED file
    /\ IF ld.raised THEN Ends("crash", 63, EmptyFrame)
       ELSE IF IsEmpty(ld.df) THEN Ends("stopped", 0, ld.df)   \* lines 65-68: st.stop()
       ELSE Derived(pg, a, Derive(ld.df))

\* One run of the script, lines 62-841, with `up` in the uploader, page pg
\* selected and the page's widgets at a.
Script(up, pg, a) ==
    Loaded(up, pg, a,
           cached_load_data(IF up.kind = "none" THEN DATA_PATH ELSE NoPath, up, file, cache))

Unrun ==
    /\ step = "init" /\ page = "Overview" /\ status = "init" /\ crash_line = 0
    /\ upload = Nothing /\ cache = <<>>
    /\ loaded = EmptyFrame /\ df = EmptyFrame /\ kpi = NoKpis
    /\ grp_dept = <<>> /\ risk_by_dept = NA_KEY
    /\ grp_job = <<>> /\ risk_by_job = NA_KEY
    /\ view = NoView /\ pred = NoPred

\* The file at DATA_PATH is written, replaced or removed outside the session.
PutFile(c) ==
    /\ file # c
    /\ file' = c
    /\ step' = "file"
    /\ UNCHANGED <<upload, cache, page, status, crash_line, loaded, df, kpi,
                   grp_dept, risk_by_dept, grp_job, risk_by_job, view, pred>>

\* A file is put into, or taken out of, the uploader: the script reruns.
Upload(c) == upload # c /\ Script(c, page, NoArgs)

RunOverview == Script(upload, "Overview", NoArgs)
RunVisuals == Script(upload, "Visuals", NoArgs)
RunAssistant(q, send) == Script(upload, "Assistant", [NoArgs EXCEPT !.q = q, !.send = send])
RunPredictor(submitted, num) ==
    Script(upload, "Predictor", [NoArgs EXCEPT !.submitted = submitted, !.num = num])
RunExport == Script(upload, "Export", NoArgs)

\* The session with its loader: files come and go at the path and in the uploader.
Init == Unrun /\ file \in {Nothing} \cup LoadContents

Next ==
    \/ \E c \in {Nothing} \cup LoadContents : PutFile(c)
    \/ \E c \in {Nothing} \cup LoadContents : Upload(c)
    \/ RunOverview
    \/ RunVisuals
    \/ \E q \in Queries, send \in BOOLEAN : RunAssistant(q, send)
    \/ \E submitted \in BOOLEAN : RunPredictor(submitted, 30)
    \/ RunExport

Spec == Init /\ [][Next]_vars

\* The script as a function of the dataset and of one interaction: the first
\* run of a session whose file at DATA_PATH is drawn from the dataset families.
FirstRun == step = "init"

InitDerive == Unrun /\ file \in DeriveContents

NextDerive ==
    \/ FirstRun /\ RunOverview
    \/ FirstRun /\ RunVisuals
    \/ FirstRun /\ \E q \in Queries, send \in BOOLEAN : RunAssistant(q, send)
    \/ FirstRun /\ \E submitted \in BOOLEAN : RunPredictor(submitted, 30)
    \/ FirstRun /\ RunExport

SpecDerive == InitDerive /\ [][NextDerive]_vars

\* The predictor over datasets around its split threshold.
InitPredict == Unrun /\ file \in PredContents

NextPredict == FirstRun /\ \E submitted \in BOOLEAN : RunPredictor(submitted, 30)

SpecPredict == InitPredict /\ [][NextPredict]_vars

\* Datasets for a session on the Predictor page: two that are fitted whole,
\* one without a candidate column, one with a single class.
SessionContents ==
    { Csv(<<OVERTIME, ATTRITION>>, [i \in 1..4 |-> PredRow(i, 4, 2, FALSE)]),
      Csv(<<AGE, ATTRITION>>, << <<<<"3", "0">>, <<"Y", "e", "s">>>>, <<<<"4", "1">>, <<"N", "o">>>> >>),
      Csv(<<ATTRITION>>, << <<<<"Y", "e", "s">>>>, <<<<"N", "o">>>> >>),
      Csv(<<AGE>>, << <<<<"3", "0">>>>, <<<<"4", "1">>>> >>) }

\* A session of uploads and Predictor interactions, in any order.
InitSession == Unrun /\ file = Nothing

NextSession ==
    \/ \E c \in {Nothing} \cup SessionContents : Upload(c)
    \/ \E submitted \in BOOLEAN : RunPredictor(submitted, 30)

SpecSession == InitSession /\ [][NextSession]_vars

\* The download of the Export page is put into the uploader and the script
\* reruns on it.
ReuploadExport ==
    /\ step = "run" /\ page = "Export" /\ status = "ok"
    /\ upload = Nothing
    /\ Script(view.exported, "Export", NoArgs)

\* Export, then load the exported text again.
InitExport == Unrun /\ file \in DeriveContents

NextExport ==
    \/ FirstRun /\ RunExport
    \/ ReuploadExport

SpecExport == InitExport /\ [][NextExport]_vars

(* ------------------------------------------------------------------ *)
(* The statements checked                                              *)
(* ------------------------------------------------------------------ *)

\* The last run got past load_data and the empty-table guard: df is the
\* frame with its derived columns.
HasDerived == step = "run" /\ status \in {"ok", "crash"} /\ crash_line # 63

\* The last run computed the KPIs.
KpisShown == HasDerived /\ crash_line \notin {92, 94, 95, 96}

\* The rows of t whose Attrition value, as text, trimmed and lower-cased, is
\* one of yes, y, true, 1.
Attrited(t) ==
    {i \in 1..Len(t.rows) : Lower(Strip(PyStr(Col(t, ATTRITION)[i]))) \in Truthy}

\* C1: for every table with an Attrition column, attrition_count is the
\* number of rows whose Attrition value, trimmed and lower-cased, is one of
\* yes, y, true, 1, and attrition_rate is 100 * count / total rounded to one
\* decimal place.
C1_CountIsTruthyRows ==
    (KpisShown /\ HasCol(df, ATTRITION)) =>
        /\ kpi.attrition_count = Cardinality(Attrited(df))
        /\ kpi.attrition_rate =
              RoundHalfEven(1000 * Cardinality(Attrited(df)), Len(df.rows))

\* The band an age of 18 or more belongs to by the names of the bands.
BandOf(age) ==
    IF age <= 25 THEN <<"1", "8", "-", "2", "5">>
    ELSE IF age <= 35 THEN <<"2", "6", "-", "3", "5">>
    ELSE IF age <= 45 THEN <<"3", "6", "-", "4", "5">>
    ELSE IF age <= 55 THEN <<"4", "6", "-", "5", "5">>
    ELSE <<"5", "5", "+">>

\* C2: every employee whose Age is below 18 or missing gets no AgeBucket,
\* and the derivation does not raise on such values.
C2_NoBucketBelow18 ==
    (HasDerived /\ HasCol(df, AGE)) =>
        /\ HasCol(df, AGEBUCKET)
        /\ \A i \in 1..Len(df.rows) :
              (IsNull(Col(df, AGE)[i]) \/ (IsNum(Col(df, AGE)[i]) /\ Col(df, AGE)[i].n < 18))
                 => IsNull(Col(df, AGEBUCKET)[i])

\* C3: every non-missing age of 18 or more gets exactly the band its value
\* belongs to (25 in 18-25, 26 in 26-35, every age above 55 in 55+), and
\* deriving the columns again on the derived table changes no AgeBucket.
C3_BandsPartitionAdults ==
    (HasDerived /\ HasCol(df, AGE) /\ ~CutRaises(df)) =>
        /\ \A i \in 1..Len(df.rows) :
              (IsNum(Col(df, AGE)[i]) /\ Col(df, AGE)[i].n >= 18)
                 => Col(df, AGEBUCKET)[i] = StrV(BandOf(Col(df, AGE)[i].n))
        /\ Col(Derive(df), AGEBUCKET) = Col(df, AGEBUCKET)

\* The defaults of a risk group: no groups, and "N/A" for the top key.
NoGroups(grp, top) == grp = <<>> /\ top = NA_KEY

\* The flag column of t holds text, so the rate of its groups cannot be computed.
FlagIsText(t) == \E i \in 1..Len(t.rows) : Col(t, ATTRITION_BOOL)[i].k = "str"

\* C4: the risk grouper yields empty groups and "N/A" as the top key when the
\* table is empty, when the dimension column or the flag column is missing,
\* or when grouping fails; it does not raise.
C4_RiskGroupDefaults ==
    /\ crash_line \notin 98..119
    /\ (step = "run" /\ status = "stopped") =>
          /\ NoGroups(grp_dept, risk_by_dept)
          /\ NoGroups(grp_job, risk_by_job)
          /\ \A dim \in {DEPARTMENT, JOBROLE} :
                NoGroups(RiskGroup(Derive(loaded), dim).grp, RiskGroup(Derive(loaded), dim).top)
    /\ KpisShown =>
          /\ (~HasCol(df, DEPARTMENT) \/ ~HasCol(df, ATTRITION_BOOL) \/ FlagIsText(df))
                => NoGroups(grp_dept, risk_by_dept)
          /\ (~HasCol(df, JOBROLE) \/ ~HasCol(df, ATTRITION_BOOL) \/ FlagIsText(df))
                => NoGroups(grp_job, risk_by_job)

\* C4 happens: the grouping by Department failed on a flag column of text, and
\* the page was shown with the defaults.
C4_GroupingFailed ==
    /\ KpisShown /\ status = "ok"
    /\ HasCol(df, DEPARTMENT)
    /\ \E i \in 1..Len(df.rows) : ~IsNull(Col(df, DEPARTMENT)[i])
    /\ FlagIsText(df)
    /\ NoGroups(grp_dept, risk_by_dept)

\* The last run reached the predictor page.
PredictorShown == KpisShown /\ page = "Predictor"

\* q holds the members of p that are columns of t, in the order of p.
RestrictedInOrder(q, p, t) ==
    /\ \A c \in {p[i] : i \in 1..Len(p)} :
          HasCol(t, c) <=> \E j \in 1..Len(q) : q[j] = c
    /\ \A j \in 1..Len(q) : \E i \in 1..Len(p) : p[i] = q[j]
    /\ \A j, k \in 1..Len(q) :
          j < k => \E a, b \in 1..Len(p) : a < b /\ p[a] = q[j] /\ p[b] = q[k]

\* C5: the predictor's features are the candidate list restricted to the
\* columns of the table, in candidate order; with none of them present the
\* page reports insufficient features and neither splits, fits nor predicts.
C5_FeaturesAreCandidatesPresent ==
    PredictorShown =>
        IF \E i \in 1..Len(Candidates) : HasCol(df, Candidates[i])
        THEN /\ pred.features # <<>>
             /\ RestrictedInOrder(pred.features, Candidates, df)
        ELSE /\ status = "ok"
             /\ pred.msg = "Not enough features for predictor demo."
             /\ pred.ops = <<>>
             /\ pred.pstate = "Unbuilt"
             /\ pred.outcome = "none"

\* C5 happens: a table with none of the candidate columns reached the page.
C5_NoCandidatePresent ==
    /\ PredictorShown
    /\ Len(df.rows) > 0
    /\ \A i \in 1..Len(Candidates) : ~HasCol(df, Candidates[i])
    /\ pred.msg = "Not enough features for predictor demo."
    /\ pred.ops = <<>>

\* C6: with a non-empty feature list the build ends with a fitted predictor
\* or with a reported training failure and no predictor; a failure while
\* splitting or fitting does not end the run.
C6_BuildFitsOrReports ==
    (PredictorShown /\ \E i \in 1..Len(Candidates) : HasCol(df, Candidates[i])) =>
        /\ status = "ok"
        /\ \/ pred.pstate = "Fitted" /\ pred.msg = "Model trained (demo)"
           \/ pred.pstate = "Unbuilt" /\ pred.msg = "Model training failed"

\* The categorical features of the fitted predictor whose input value was in
\* no training row.
UnseenInputs ==
    {f \in 1..Len(pred.features) :
        /\ ~IsNumericCol(df, pred.features[f])
        /\ ~IsNull(pred.inputs[f])
        /\ \A j \in 1..Len(pred.cats[f]) : pred.cats[f][j] # pred.inputs[f]}

\* C7: a prediction on a fitted predictor with a value of a categorical
\* feature that no training row had does not raise: it yields a probability
\* between 0 and 1, the value encoded as all zeros.
C7_UnseenCategoryIgnored ==
    (PredictorShown /\ pred.pstate = "Fitted" /\ pred.inputs # <<>> /\ UnseenInputs # {}) =>
        /\ status = "ok"
        /\ pred.outcome = "probability"
        /\ pred.proba \in 0..ProbaSteps
        /\ \A f \in UnseenInputs :
              /\ Len(pred.enc[f]) = Len(pred.cats[f])
              /\ \A j \in 1..Len(pred.enc[f]) : pred.enc[f][j] = 0

\* C7 happens: the form was submitted with an OverTime value that only a
\* held-out employee has.
C7_UnseenSubmitted ==
    /\ PredictorShown /\ pred.pstate = "Fitted"
    /\ pred.ops = <<"split", "fit", "predict">>
    /\ UnseenInputs # {}
    /\ \E f \in UnseenInputs :
          /\ pred.cats[f] # <<>>
          /\ \E i \in pred.test : Col(df, pred.features[f])[i] = pred.inputs[f]

\* A name without whitespace at either end.
Trimmed(name) == name = <<>> \/ (~IsSpace(name[1]) /\ ~IsSpace(name[Len(name)]))

\* What load_data reads for its arguments: the upload, else the file at the
\* path, else nothing.
SourceOf(path, uploaded, fs) ==
    IF uploaded.kind # "none" THEN uploaded
    ELSE IF path # NoPath THEN fs
    ELSE Nothing

\* C8: load_data never raises: with neither a path nor an upload, or when
\* reading the source fails, it returns an empty table, and no column name
\* of a table it returns has whitespace around it.
C8_LoaderNeverRaises ==
    /\ crash_line # 63
    /\ step = "run" => \A j \in 1..Len(loaded.cols) : Trimmed(loaded.cols[j])
    /\ \A path \in {DATA_PATH, NoPath}, up \in {Nothing, upload} :
          /\ ~load_data(path, up, file).raised
          /\ ReadCsvRaises(SourceOf(path, up, file))
                => load_data(path, up, file).df = EmptyFrame
          /\ \A j \in 1..Len(load_data(path, up, file).df.cols) :
                Trimmed(load_data(path, up, file).df.cols[j])

\* C8 happens: the first run of a session read a file with a row too long for
\* its header, load_data returned the empty table and the script stopped at
\* the guard.
C8_ReadFailedEmpty ==
    /\ step = "run" /\ upload = Nothing
    /\ file.kind = "csv" /\ file.header # <<>> /\ ReadCsvRaises(file)
    /\ loaded = EmptyFrame
    /\ status = "stopped"

\* C9: every load returns the table parsed from the current content of its
\* source, whatever was loaded before: the cache never answers with a table
\* of earlier content.
C9_LoadReturnsCurrentContent ==
    step = "run" =>
        loaded = load_data(IF upload.kind = "none" THEN DATA_PATH ELSE NoPath,
                           upload, file).df

\* C10: on a table of employees whose columns are any subset of the expected
\* columns, every interaction (Overview, Visuals, Assistant with any query,
\* Predictor, Export) runs to its end without an unhandled error.
C10_EveryInteractionCompletes ==
    (step = "run" /\ file \in FamSchema /\ ~IsEmpty(loaded)) => status = "ok"

\* The table the first run of the session read from the file at DATA_PATH.
FirstLoaded == load_data(DATA_PATH, Nothing, file).df

\* The last run loaded the text that the Export page of the first run wrote.
Reloaded == step = "run" /\ upload.kind = "csv" /\ upload = page_export(Derive(FirstLoaded))

\* C11: the table exported by page_export and loaded again by load_data has
\* the same rows, and in every column that was not derived the same values,
\* as the table that was exported.
C11_ExportRoundTrip ==
    Reloaded =>
        /\ Len(loaded.rows) = Len(FirstLoaded.rows)
        /\ \A j \in 1..Len(FirstLoaded.cols) :
              /\ HasCol(loaded, FirstLoaded.cols[j])
              /\ Col(loaded, FirstLoaded.cols[j]) = Col(FirstLoaded, FirstLoaded.cols[j])

\* C11 happens: the reloaded export has a number that was written as a float
\* literal and a missing cell.
C11_ReloadedWithGaps ==
    /\ Reloaded /\ status = "ok"
    /\ \E i \in 1..Len(loaded.rows), j \in 1..Len(loaded.cols) :
          loaded.rows[i][j].k = "float"
    /\ \E i \in 1..Len(loaded.rows), j \in 1..Len(loaded.cols) :
          IsNull(loaded.rows[i][j])

\* The rows of the groups g whose rate is the largest.
MaxRateRows(g) ==
    {i \in 1..Len(g) :
        /\ g[i].rate.den > 0
        /\ \A h \in 1..Len(g) :
              g[h].rate.den > 0 =>
                 g[h].rate.num * g[i].rate.den <= g[i].rate.num * g[h].rate.den}

\* The first row of t whose value in column dim is key.
FirstRow(t, dim, key) ==
    CHOOSE i \in 1..Len(t.rows) :
        /\ Col(t, dim)[i] = key
        /\ \A h \in 1..(i - 1) : Col(t, dim)[h] # key

TopIsMax(g, top) == \E i \in MaxRateRows(g) : g[i].key = top

\* Among the groups with the largest rate, top is the one met first in the rows.
TieByRowOrder(t, dim, g, top) ==
    /\ TopIsMax(g, top)
    /\ \A i \in MaxRateRows(g) : FirstRow(t, dim, top) <= FirstRow(t, dim, g[i].key)

\* Among the groups with the largest rate, top is the one with the smallest key.
TieByKeyOrder(g, top) ==
    /\ TopIsMax(g, top)
    /\ \A i \in MaxRateRows(g) : g[i].key = top \/ ValLess(top, g[i].key)

\* C12 (as stated): the top-risk key of a dimension is a group with the
\* largest attrition rate, and of several groups with the largest rate it is
\* the one whose value occurs first in the rows of the table.
C12_TieFirstInRows ==
    KpisShown =>
        /\ MaxRateRows(grp_dept) # {} => TieByRowOrder(df, DEPARTMENT, grp_dept, risk_by_dept)
        /\ MaxRateRows(grp_job) # {} => TieByRowOrder(df, JOBROLE, grp_job, risk_by_job)

\* C12 (amended): the top-risk key of a dimension is a group with the largest
\* attrition rate, and of several groups with the largest rate it is the one
\* whose key is first in the sorted order of the keys; a table has one such key.
C12_TieSmallestKey ==
    KpisShown =>
        /\ MaxRateRows(grp_dept) # {} => TieByKeyOrder(grp_dept, risk_by_dept)
        /\ MaxRateRows(grp_job) # {} => TieByKeyOrder(grp_job, risk_by_job)

\* C12 happens: two departments share the largest rate, and the one shown is
\* not the one that comes first in the rows.
C12_TieShown ==
    /\ KpisShown /\ status = "ok"
    /\ Cardinality(MaxRateRows(grp_dept)) >= 2
    /\ TopIsMax(grp_dept, risk_by_dept)
    /\ FirstRow(df, DEPARTMENT, risk_by_dept) > 1

\* The records of t whose value in column dim is key.
Members(t, dim, key) == {r \in 1..Len(t.rows) : Col(t, dim)[r] = key}

\* The sum of the attrition flag over the records of t with key in column dim.
FlagSum(t, dim, key) ==
    SumSeq([r \in 1..Len(t.rows) |->
              IF r \in Members(t, dim, key) /\ IsNum(Col(t, ATTRITION_BOOL)[r])
              THEN Col(t, ATTRITION_BOOL)[r].n ELSE 0])

\* g holds one row for each distinct non-missing value of column dim of t, with
\* the number of its records, the sum of their flags and the rate of the two.
GroupRowsOf(t, dim, g) ==
    /\ {g[i].key : i \in 1..Len(g)} = {Col(t, dim)[r] : r \in 1..Len(t.rows)} \ {NaN}
    /\ \A i, h \in 1..Len(g) : g[i].key = g[h].key => i = h
    /\ \A i \in 1..Len(g) :
          /\ g[i].total = Cardinality(Members(t, dim, g[i].key))
          /\ g[i].total >= 1
          /\ g[i].left = FlagSum(t, dim, g[i].key)
          /\ g[i].rate = [num |-> 100 * g[i].left, den |-> g[i].total]

\* C13: for Department and for JobRole alike, the group rows are keyed by
\* exactly the distinct non-missing values of the column; each row has total =
\* the number of records with that value (at least 1), attrited = the sum of
\* the attrition flag over them, and rate = 100 * attrited / total.
C13_GroupRowsPerValue ==
    (KpisShown /\ ~FlagIsText(df)) =>
        /\ HasCol(df, DEPARTMENT) => GroupRowsOf(df, DEPARTMENT, grp_dept)
        /\ HasCol(df, JOBROLE) => GroupRowsOf(df, JOBROLE, grp_job)

\* The attrition flag of t has at least two distinct values and t has at
\* least 10 records.
TwoClassesTenRecords(t) ==
    /\ Cardinality({Col(t, ATTRITION_BOOL)[r] : r \in 1..Len(t.rows)} \ {NaN}) >= 2
    /\ Len(t.rows) >= 10

\* train and test are an 80/20 holdout of the records of t, each value of the
\* flag held out in its proportion (rounded down or up).
StratifiedHoldout(t, train, test) ==
    /\ train \cup test = 1..Len(t.rows)
    /\ train \cap test = {}
    /\ 5 * Cardinality(test) >= Len(t.rows)
    /\ 5 * (Cardinality(test) - 1) < Len(t.rows)
    /\ \A r \in 1..Len(t.rows) :
          LET same == {q \in 1..Len(t.rows) :
                          Col(t, ATTRITION_BOOL)[q] = Col(t, ATTRITION_BOOL)[r]}
              held == Cardinality(same \cap test) * Len(t.rows)
          IN  /\ held > (Cardinality(same) * Cardinality(test)) - Len(t.rows)
              /\ held < (Cardinality(same) * Cardinality(test)) + Len(t.rows)

\* The predictor page called train_test_split.
SplitCalled == pred.ops # <<>> /\ pred.ops[1] = "split"

\* The predictor page of the last run got past the feature check.
BuildStarted == PredictorShown /\ pred.features # <<>>

Present(t, name) == SelectSeq(Col(t, name), LAMBDA v : ~IsNull(v))

\* The sum of the numbers q.
Total(q) == SumSeq([i \in 1..Len(q) |-> IF IsNum(q[i]) THEN q[i].n ELSE 0])

\* shown is "N/A" when t has no column name or no value in it, and the mean of
\* its values otherwise: in tenths, rounded, or floored to an integer.
MeanKpi(t, name, shown, floored) ==
    IF ~HasCol(t, name) \/ Present(t, name) = <<>>
    THEN shown.na
    ELSE /\ ~shown.na
         /\ shown.v = IF floored
                      THEN Total(Present(t, name)) \div Len(Present(t, name))
                      ELSE RoundHalfEven(10 * Total(Present(t, name)), Len(Present(t, name)))

\* C15: each mean KPI is "N/A" when its column is absent or has no non-missing
\* value and the mean of the non-missing values otherwise, average age and
\* average years rounded to one decimal place, average monthly income floored
\* to an integer; computing them never raises.
C15_MeanKpis ==
    HasDerived =>
        /\ crash_line \notin {94, 95, 96}
        /\ KpisShown =>
              /\ MeanKpi(df, AGE, kpi.avg_age, FALSE)
              /\ MeanKpi(df, MONTHLYINCOME, kpi.avg_income, TRUE)
              /\ MeanKpi(df, YEARSATCOMPANY, kpi.avg_years, FALSE)

\* The predictor of the last run was fitted on the table t: its features are
\* the candidate columns of t, its training rows are rows of t with both
\* classes, and its categories are the values of those rows.
FittedOn(t) ==
    /\ RestrictedInOrder(pred.features, Candidates, t)
    /\ pred.train # {} /\ pred.train \subseteq 1..Len(t.rows)
    /\ Cardinality({Col(t, ATTRITION_BOOL)[r] : r \in pred.train}) >= 2
    /\ Len(pred.cats) = Len(pred.features)
    /\ \A f \in 1..Len(pred.features) :
          {pred.cats[f][j] : j \in 1..Len(pred.cats[f])} =
             IF IsNumericCol(t, pred.features[f]) THEN {}
             ELSE {Col(t, pred.features[f])[r] : r \in pred.train} \ {NaN}

\* C16: over any sequence of Predictor interactions a prediction is served
\* only in the Fitted state, by a model fitted earlier in the same interaction
\* on the current table; after an insufficient-features result or a training
\* failure none is served until a later build succeeds.
C16_ServedOnlyWhenFitted ==
    /\ pred.outcome # "none" =>
          /\ step = "run" /\ page = "Predictor" /\ status = "ok"
          /\ pred.pstate = "Fitted"
          /\ Len(pred.ops) >= 2
          /\ pred.ops[Len(pred.ops) - 1] = "fit" /\ pred.ops[Len(pred.ops)] = "predict"
          /\ FittedOn(df)
    /\ pred.msg \in {"Not enough features for predictor demo.", "Model training failed"} =>
          pred.pstate = "Unbuilt" /\ pred.outcome = "none"
    /\ pred.pstate = "Fitted" => (status = "ok" /\ FittedOn(df))

\* C16 happens: a probability is served in a session that earlier loaded a
\* table without any candidate column.
C16_ServedAfterFailure ==
    /\ step = "run" /\ page = "Predictor"
    /\ pred.outcome = "probability"
    /\ \E key \in DOMAIN cache :
          /\ Len(cache[key].rows) > 0
          /\ \A i \in 1..Len(Candidates) : ~HasCol(cache[key], Candidates[i])

C18_VisualsRateIsKpiRate ==
    (KpisShown /\ status = "ok" /\ page = "Visuals" /\ HasCol(df, ATTRITION)) =>
        view.attr_rate_local = Shown("num", kpi.attrition_rate)

\* C19: after derivation every record's Attrition_bool is 0 or 1, also in a
\* table that came with an Attrition_bool column, so that
\* 0 <= attrition_count <= total and 0 <= attrition_rate <= 100.
C19_FlagIsZeroOrOne ==
    HasDerived =>
        /\ HasCol(df, ATTRITION_BOOL)
        /\ \A i \in 1..Len(df.rows) :
              /\ IsNum(Col(df, ATTRITION_BOOL)[i])
              /\ Col(df, ATTRITION_BOOL)[i].n \in {0, 1}
        /\ crash_line # 92
        /\ KpisShown =>
              /\ 0 <= kpi.attrition_count /\ kpi.attrition_count <= kpi.total_employees
              /\ 0 <= kpi.attrition_rate /\ kpi.attrition_rate <= 1000

\* The key shown for the groups g: "N/A" exactly when there is no group, and
\* otherwise the key of one of them (a number as its text).
ShownKeyOf(g, shown) ==
    /\ shown = NA_KEY <=> g = <<>>
    /\ g # <<>> => \E i \in 1..Len(g) : shown = g[i].key \/ shown = StrV(PyStr(g[i].key))

\* C20: for each dimension the top-risk key shown on the Overview page is
\* "N/A" if and only if the dimension has no group; with groups the key shown
\* is the key of one of them, whatever the type of the keys.
C20_ShownKeyIsGroupKey ==
    (KpisShown /\ status = "ok" /\ page = "Overview") =>
        /\ ShownKeyOf(grp_dept, view.dept_txt)
        /\ ShownKeyOf(grp_job, view.job_txt)
====
